---- MODULE Spec2Model ----
(***************************************************************************)
(* Model of rotten_tomatoes_web_scraper.py: the two extractors             *)
(* (extract_movie_info, extract_tv_info), the dispatcher                   *)
(* scrape_rotten_tomatoes_and_update_sheet, fetch_urls_from_sheet and the  *)
(* loop of main.                                                           *)
(*                                                                         *)
(* Python strings that the code processes textually (split, strip, regex,  *)
(* strptime, float) are sequences of one-character strings.  Tag names,    *)
(* attribute names, class/slot/property values and exception names are     *)
(* compared only for equality and are plain TLA+ strings.  An optional     *)
(* value (the result of soup.find, of Tag.get without default, of          *)
(* re.search) is a sequence of length 0 (None) or 1.                       *)
(***************************************************************************)
EXTENDS Integers, Sequences, FiniteSets, TLC

VARIABLES
    pc,          \* main: "start", "loop", "done", "aborted"; ExtractSpec: "call_*", "returned_*"
    column,      \* the cells of the URL column of the sheet, from row start_row on
    header_row,  \* sheet.row_values(1) as read by main
    urls,        \* the list returned by fetch_urls_from_sheet
    srcRows,     \* history: the sheet row each entry of urls was read from
    idx,         \* number of loop iterations of main completed
    sheetWrites, \* the sheet.update calls that succeeded, in order
    logFile,     \* the records emitted to RT_web_scraper.log, in order
    calls,       \* history: one entry per scrape_rotten_tomatoes_and_update_sheet call
    soup,        \* ExtractSpec: the document handed to the extractor
    url,         \* ExtractSpec: the URL handed to extract_tv_info
    series,      \* ExtractSpec: the response of the series page fetch
    result       \* ExtractSpec: what the extractor returned or raised

vars == <<pc, column, header_row, urls, srcRows, idx, sheetWrites, logFile, calls,
          soup, url, series, result>>

---------------------------------------------------------------------------
(* Optional values *)

None == << >>
Some(x) == <<x>>

---------------------------------------------------------------------------
(* str: the string methods the code uses *)

Whitespace == {" ", "\t", "\n"}

RECURSIVE LStripSet(_, _)
LStripSet(s, chars) ==
    IF s # << >> /\ Head(s) \in chars THEN LStripSet(Tail(s), chars) ELSE s

RECURSIVE RStripSet(_, _)
RStripSet(s, chars) ==
    IF s # << >> /\ s[Len(s)] \in chars
    THEN RStripSet(SubSeq(s, 1, Len(s) - 1), chars)
    ELSE s

\* str.strip(chars)
StripSet(s, chars) == RStripSet(LStripSet(s, chars), chars)

\* str.strip()
Strip(s) == StripSet(s, Whitespace)

RECURSIVE SplitAcc(_, _, _, _)
SplitAcc(s, sep, cur, acc) ==
    IF s = << >> THEN Append(acc, cur)
    ELSE IF Head(s) = sep THEN SplitAcc(Tail(s), sep, << >>, Append(acc, cur))
    ELSE SplitAcc(Tail(s), sep, Append(cur, Head(s)), acc)

\* str.split(sep) for a one-character separator: never an empty list
Split(s, sep) == SplitAcc(s, sep, << >>, << >>)

RECURSIVE Join(_, _)
\* sep.join(parts)
Join(parts, sep) ==
    IF parts = << >> THEN << >>
    ELSE IF Len(parts) = 1 THEN parts[1]
    ELSE parts[1] \o sep \o Join(Tail(parts), sep)

StartsWith(s, p) == Len(s) >= Len(p) /\ SubSeq(s, 1, Len(p)) = p

\* p in s
Contains(s, p) == \E i \in 0..(Len(s) - Len(p)) : SubSeq(s, i + 1, i + Len(p)) = p

RECURSIVE Replace(_, _, _)
\* str.replace(old, new), old non-empty
Replace(s, old, new) ==
    IF s = << >> THEN << >>
    ELSE IF StartsWith(s, old)
         THEN new \o Replace(SubSeq(s, Len(old) + 1, Len(s)), old, new)
         ELSE <<Head(s)>> \o Replace(Tail(s), old, new)

DigitChars == <<"0", "1", "2", "3", "4", "5", "6", "7", "8", "9">>
IsDigit(c) == \E i \in 1..Len(DigitChars) : DigitChars[i] = c
DigitVal(c) == (CHOOSE i \in 1..Len(DigitChars) : DigitChars[i] = c) - 1
AllDigits(s) == \A i \in 1..Len(s) : IsDigit(s[i])

RECURSIVE DecVal(_)
\* the value of a string of decimal digits
DecVal(s) ==
    IF s = << >> THEN 0
    ELSE DecVal(SubSeq(s, 1, Len(s) - 1)) * Len(DigitChars) + DigitVal(s[Len(s)])

RECURSIVE IntToStr(_)
\* str(n) for n >= 0
IntToStr(n) ==
    IF n < Len(DigitChars) THEN <<DigitChars[n + 1]>>
    ELSE IntToStr(n \div Len(DigitChars)) \o <<DigitChars[(n % Len(DigitChars)) + 1]>>

\* '%02d' % n
TwoDigits(n) == IF n < Len(DigitChars) THEN <<"0">> \o IntToStr(n) ELSE IntToStr(n)

UpperChars == <<"A", "B", "C", "D", "E", "F", "G", "H", "I", "J", "K", "L", "M",
                "N", "O", "P", "Q", "R", "S", "T", "U", "V", "W", "X", "Y", "Z">>
LowerChars == <<"a", "b", "c", "d", "e", "f", "g", "h", "i", "j", "k", "l", "m",
                "n", "o", "p", "q", "r", "s", "t", "u", "v", "w", "x", "y", "z">>
LowerChar(c) ==
    IF \E i \in 1..Len(UpperChars) : UpperChars[i] = c
    THEN LowerChars[CHOOSE i \in 1..Len(UpperChars) : UpperChars[i] = c]
    ELSE c
\* str.lower()
Lower(s) == [i \in 1..Len(s) |-> LowerChar(s[i])]

\* the number of leading characters of s that belong to chars
RECURSIVE LeadLen(_, _)
LeadLen(s, chars) ==
    IF s # << >> /\ Head(s) \in chars THEN 1 + LeadLen(Tail(s), chars) ELSE 0

DigitSet == {DigitChars[i] : i \in 1..Len(DigitChars)}

---------------------------------------------------------------------------
(* datetime.strptime(value, '%b %d, %Y') and strftime('%m/%d/%y') *)

MonthAbbr == << <<"j", "a", "n">>, <<"f", "e", "b">>, <<"m", "a", "r">>,
                <<"a", "p", "r">>, <<"m", "a", "y">>, <<"j", "u", "n">>,
                <<"j", "u", "l">>, <<"a", "u", "g">>, <<"s", "e", "p">>,
                <<"o", "c", "t">>, <<"n", "o", "v">>, <<"d", "e", "c">> >>

\* the month number of a lower-cased abbreviation, 0 when it is none
MonthNumber(abbr) ==
    IF \E m \in 1..Len(MonthAbbr) : MonthAbbr[m] = abbr
    THEN CHOOSE m \in 1..Len(MonthAbbr) : MonthAbbr[m] = abbr
    ELSE 0

IsLeap(y) == (y % 4 = 0 /\ y % 100 # 0) \/ y % 400 = 0

DaysIn(m, y) ==
    IF m = 2 THEN (IF IsLeap(y) THEN 29 ELSE 28)
    ELSE IF m \in {4, 6, 9, 11} THEN 30 ELSE 31

\* strptime compiles the format to the regular expression
\*   (jan|...|dec)\s+(3[0-1]|[1-2]\d|0[1-9]|[1-9]| [1-9]),\s+(\d\d\d\d)
\* (case-insensitive), requires it to consume the whole string, and then
\* builds the date, which fails for a day the month does not have or year 0.
\* None stands for ValueError.
Strptime(value) ==
    LET mon  == MonthNumber(Lower(SubSeq(value, 1, 3)))
        r1   == SubSeq(value, 4, Len(value))
        w1   == LeadLen(r1, Whitespace)
        r2   == SubSeq(r1, w1 + 1, Len(r1))
        dl   == LeadLen(r2, DigitSet)
        day  == DecVal(SubSeq(r2, 1, dl))
        r3   == SubSeq(r2, dl + 1, Len(r2))
        r4   == SubSeq(r3, 2, Len(r3))
        w2   == LeadLen(r4, Whitespace)
        ystr == SubSeq(r4, w2 + 1, Len(r4))
        year == DecVal(ystr)
    IN  IF /\ Len(value) >= 3
           /\ mon # 0
           /\ w1 >= 1
           /\ dl \in 1..2
           /\ day \in 1..31
           /\ r3 # << >>
           /\ Head(r3) = ","
           /\ w2 >= 1
           /\ Len(ystr) = 4
           /\ AllDigits(ystr)
           /\ year >= 1
           /\ day <= DaysIn(mon, year)
        THEN Some([month |-> mon, day |-> day, year |-> year])
        ELSE None

\* datetime.strftime('%m/%d/%y')
Strftime(d) ==
    TwoDigits(d.month) \o <<"/">> \o TwoDigits(d.day) \o <<"/">> \o TwoDigits(d.year % 100)

check_date_format(value) == Strptime(value) # None

---------------------------------------------------------------------------
(* float(): the decimal-integer strings (surrounding whitespace allowed). *)
(* Signs, decimal points, exponents, "inf" and "nan" are not in the       *)
(* model's input alphabet.  None stands for ValueError.                   *)

FloatParse(s) ==
    LET t == Strip(s)
    IN  IF t # << >> /\ AllDigits(t) THEN Some(DecVal(t)) ELSE None

\* x / 100 for the float x = n: the fraction n/100
Div100(n) == <<"float", n, 100>>

---------------------------------------------------------------------------
(* BeautifulSoup: a document is the sequence of its elements in document  *)
(* order; an element is [tag, attrs, text], attrs a function from the     *)
(* names of the attributes it has to their values.                        *)

\* soup.find(tag)
FindTag(doc, tag) ==
    LET hits == SelectSeq(doc, LAMBDA e : e.tag = tag)
    IN  IF hits = << >> THEN None ELSE Some(hits[1])

\* soup.find(tag, class_=val) / soup.find(tag, attrs={attr: val})
Find(doc, tag, attr, val) ==
    LET hits == SelectSeq(doc, LAMBDA e :
                    /\ e.tag = tag
                    /\ attr \in DOMAIN e.attrs
                    /\ e.attrs[attr] = val)
    IN  IF hits = << >> THEN None ELSE Some(hits[1])

\* soup.find_all(tag)
FindAll(doc, tag) == SelectSeq(doc, LAMBDA e : e.tag = tag)

\* Tag.get(name): None when the attribute is absent
AttrGet(e, name) == IF name \in DOMAIN e.attrs THEN Some(e.attrs[name]) ELSE None

\* Tag.get(name, default)
AttrGetDefault(e, name, default) ==
    IF name \in DOMAIN e.attrs THEN e.attrs[name] ELSE default

\* Tag.get_text() and Tag.get_text(strip=True) of an element with one text node
GetText(e) == e.text
GetTextStrip(e) == Strip(e.text)

---------------------------------------------------------------------------
(* Results: a call either returns a value or raises *)

Returned(v) == [exc |-> "", line |-> 0, val |-> v]
Raised(name, line) == [exc |-> name, line |-> line, val |-> << >>]

\* 'not found'
NotFound == <<"n", "o", "t", " ", "f", "o", "u", "n", "d">>

CommaSpace == <<",", " ">>

---------------------------------------------------------------------------
(* extract_movie_info *)

MovieType == <<"M", "o", "v", "i", "e">>

\* lines 82-83: float(board.get(name, 'not found')) / 100 if board and
\* board.get(name) not in ('not found', '') else 'not found'
MovieScore(score_board, name, line) ==
    IF /\ score_board # None
       /\ LET v == AttrGet(score_board[1], name)
          IN  v = None \/ v[1] \notin {NotFound, << >>}
    THEN LET f == FloatParse(AttrGetDefault(score_board[1], name, NotFound))
         IN  IF f = None THEN Raised("ValueError", line) ELSE Returned(Div100(f[1]))
    ELSE Returned(NotFound)

extract_movie_info(doc) ==
    LET title_html == Find(doc, "h1", "class", "title")
        title == IF title_html # None THEN GetTextStrip(title_html[1]) ELSE NotFound
        info_html == Find(doc, "p", "class", "info")
    IN  IF info_html = None
        THEN Raised("AttributeError", 72)   \* None.get_text
        ELSE
        LET info_text == GetTextStrip(info_html[1])
            info_text_parts == Split(info_text, ",")
            year == IF Len(info_text_parts) > 0 THEN Strip(info_text_parts[1]) ELSE NotFound
            runtime == IF Len(info_text_parts) > 2 THEN Strip(info_text_parts[3]) ELSE NotFound
            genre_html == Find(doc, "span", "class", "genre")
            genres == IF genre_html # None THEN Split(GetTextStrip(genre_html[1]), ",") ELSE << >>
            genre == IF genre_html # None
                     THEN Join([i \in 1..Len(genres) |-> Strip(genres[i])], CommaSpace)
                     ELSE NotFound
            score_board == FindTag(doc, "score-board-deprecated")
            tomatometer == MovieScore(score_board, "tomatometerscore", 82)
            audience_score == MovieScore(score_board, "audiencescore", 83)
            release_date_html == FindTag(doc, "time")
            release_date_text == IF release_date_html # None
                                 THEN GetTextStrip(release_date_html[1])
                                 ELSE NotFound
            release_date == IF check_date_format(release_date_text)
                            THEN Strftime(Strptime(release_date_text)[1])
                            ELSE NotFound
        IN  IF tomatometer.exc # "" THEN tomatometer
            ELSE IF audience_score.exc # "" THEN audience_score
            ELSE Returned(<<title, MovieType, year, genre, runtime,
                            tomatometer.val, audience_score.val, release_date>>)

---------------------------------------------------------------------------
(* extract_tv_info *)

TvType == <<"T", "V">>
NotApplicable == <<"N", "/", "A">>

\* A URL is the sequence of the pieces between its slashes:
\* "https://www.rottentomatoes.com/tv/x/s01" is
\* <<"https:", "", "www.rottentomatoes.com", "tv", "x", "s01">>.
SeriesPrefix == <<"https:", "", "www.rottentomatoes.com", "tv">>

\* line 110: re.search(r'(https://www\.rottentomatoes\.com/tv/[^/]+)/?', url)
\* group(1) of the leftmost match, None when there is none
SeriesUrlSearch(u) ==
    LET At(i) == /\ i + Len(SeriesPrefix) <= Len(u)
                 /\ SubSeq(u, i, i + Len(SeriesPrefix) - 1) = SeriesPrefix
                 /\ u[i + Len(SeriesPrefix)] # ""
    IN  IF \E i \in 1..Len(u) : At(i)
        THEN LET i == CHOOSE i \in 1..Len(u) : At(i) /\ \A j \in 1..(i - 1) : ~At(j)
             IN  Some(SubSeq(u, i, i + Len(SeriesPrefix)))
        ELSE None

\* the three characters between "Season <N> " and " <title>" in the pattern
\* of line 118, as the source file holds them: U+00E2, U+20AC, U+201C
SeasonDash == <<"U+00E2", "U+20AC", "U+201C">>
\* the en dash, U+2013
EnDash == <<"U+2013">>

SeasonWord == <<"S", "e", "a", "s", "o", "n", " ">>

RECURSIVE LineOf(_)
\* the characters of s before its first line break: what .* can match
LineOf(s) ==
    IF s = << >> \/ Head(s) = "\n" THEN << >> ELSE <<Head(s)>> \o LineOf(Tail(s))

\* re.match of r'Season (\d+) <SeasonDash> (.+)' at offset i of text:
\* the digits are maximal (a shorter run is followed by a digit, not a
\* space), and .+ runs to the end of the line. None when no match.
SeasonMatchAt(text, i) ==
    LET r1 == SubSeq(text, i, Len(text))
        r2 == SubSeq(r1, Len(SeasonWord) + 1, Len(r1))
        dl == LeadLen(r2, DigitSet)
        r3 == SubSeq(r2, dl + 1, Len(r2))
        sep == <<" ">> \o SeasonDash \o <<" ">>
        r4 == SubSeq(r3, Len(sep) + 1, Len(r3))
        g2 == LineOf(r4)
    IN  IF /\ StartsWith(r1, SeasonWord)
           /\ dl >= 1
           /\ StartsWith(r3, sep)
           /\ g2 # << >>
        THEN Some([season |-> SubSeq(r2, 1, dl), title |-> g2])
        ELSE None

\* line 118: re.search, the leftmost match
SeasonSearch(text) ==
    IF \E i \in 1..Len(text) : SeasonMatchAt(text, i) # None
    THEN SeasonMatchAt(text, CHOOSE i \in 1..Len(text) :
            /\ SeasonMatchAt(text, i) # None
            /\ \A j \in 1..(i - 1) : SeasonMatchAt(text, j) = None)
    ELSE None

\* lines 127-133: float(text.strip('%')) / 100 if text else 'not found'
TvScore(doc, slot, line) ==
    LET html == Find(doc, "rt-text", "slot", slot)
        text == IF html # None THEN GetTextStrip(html[1]) ELSE << >>
    IN  IF text # << >>
        THEN LET f == FloatParse(StripSet(text, {"%"}))
             IN  IF f = None THEN Raised("ValueError", line) ELSE Returned(Div100(f[1]))
        ELSE Returned(NotFound)

Aired == <<"A", "i", "r", "e", "d">>

\* series_response: what requests.get(series_url, timeout=30) does,
\* [ok |-> FALSE] for a RequestException, else the page it returns
extract_tv_info(doc, u, series_response) ==
    LET series_url == SeriesUrlSearch(u)
    IN  IF series_url = None
        THEN Raised("AttributeError", 110)   \* None.group
        ELSE IF ~series_response.ok
        THEN Raised("RequestException", 111)
        ELSE
        LET series_soup == series_response.doc
            series_year_html == Find(series_soup, "rt-text", "slot", "releaseDate")
            series_year == IF series_year_html # None
                           THEN GetText(series_year_html[1])
                           ELSE NotFound
            title_season_html == FindTag(doc, "h1")
            title_season_text == IF title_season_html # None
                                 THEN GetText(title_season_html[1])
                                 ELSE << >>
            title_season_match == SeasonSearch(title_season_text)
            season == IF title_season_match # None
                      THEN SeasonWord \o title_season_match[1].season
                      ELSE NotFound
            title0 == IF title_season_match # None
                      THEN title_season_match[1].title
                      ELSE NotFound
            title == IF title0 # << >> /\ season # << >>
                     THEN Strip(title0) \o <<" ", "(">> \o season \o <<")">>
                     ELSE NotFound
            genre_html == FindAll(doc, "rt-link")
            genres_html == SelectSeq(genre_html, LAMBDA link :
                               Contains(AttrGetDefault(link, "href", << >>), <<"g", "e", "n", "r",
                                       "e", "s", ":">>))
            genres == [i \in 1..Len(genres_html) |-> GetText(genres_html[i])]
            genre == Join(genres, CommaSpace)
            tomatometer == TvScore(doc, "criticsScore", 129)
            audience_score == TvScore(doc, "audienceScore", 133)
            release_date_html == Find(doc, "rt-text", "slot", "airDate")
            release_date_text == IF release_date_html # None
                                 THEN GetTextStrip(release_date_html[1])
                                 ELSE << >>
            release_date_unformatted == IF release_date_text # << >>
                                        THEN Strip(Replace(release_date_text, Aired, << >>))
                                        ELSE NotFound
            release_date_datetime == Strptime(release_date_unformatted)
            release_date == IF check_date_format(release_date_unformatted)
                            THEN Strftime(release_date_datetime[1])
                            ELSE NotFound
            year == IF series_year # << >>
                    THEN IntToStr(release_date_datetime[1].year)
                             \o <<" ", "(">> \o series_year \o <<")">>
                    ELSE NotFound
        IN  IF tomatometer.exc # "" THEN tomatometer
            ELSE IF audience_score.exc # "" THEN audience_score
            ELSE IF release_date_unformatted # NotFound
            THEN IF release_date_datetime = None
                 THEN Raised("ValueError", 139)        \* strptime, before the check
                 ELSE Returned(<<title, TvType, year, genre, NotApplicable,
                                 tomatometer.val, audience_score.val, release_date>>)
            ELSE Raised("UnboundLocalError", 143)      \* year was never assigned

---------------------------------------------------------------------------
(* The documents and URLs the extractors are run on *)

Elem(tag, attrs, text) == [tag |-> tag, attrs |-> attrs, text |-> text]
NoAttrs == << >>

TitleElem == Elem("h1", [class |-> "title"], <<" ", "I", "n", "c", "e", "p", "t", "i", "o", "n",
        "\n">>)
InfoElem(text) == Elem("p", [class |-> "info"], text)
GenreElem(text) == Elem("span", [class |-> "genre"], text)
TimeElem(text) == Elem("time", NoAttrs, text)
\* t, a: the optional values of the two score attributes
BoardElem(t, a) ==
    Elem("score-board-deprecated",
         [n \in {x \in {"tomatometerscore"} : t # None} \cup {x \in {"audiencescore"} : a # None}
            |-> IF n = "tomatometerscore" THEN t[1] ELSE a[1]],
         << >>)

InfoFull == <<"2", "0", "1", "0", ",", " ", "R", ",", " ", "2", "h", " ", "2", "8", "m">>
GenreFull == <<"S", "c", "i", "-", "F", "i", ",", " ", "A", "c", "t", "i", "o", "n">>
TimeFull == <<"J", "u", "l", " ", "1", "6", ",", " ", "2", "0", "1", "0">>

TitleOpts == {<< >>, <<TitleElem>>}
InfoOpts == {<< >>} \cup {<<InfoElem(t)>> : t \in {InfoFull, <<"2", "0", "1", "0", ",", " ", "R">>,
        << >>}}
GenreOpts == {<< >>} \cup {<<GenreElem(t)>> : t \in {GenreFull, <<"A", "c", "t", "i", "o", "n",
        " ", ",", "A", "c", "t", "i", "o", "n">>}}
TomatoOpts == {None, Some(<< >>), Some(<<"8", "7">>), Some(<<"0">>), Some(<<"1", "0", "0">>),
        Some(<<"-", "-">>)}
AudienceOpts == {None, Some(<< >>), Some(<<"9", "1">>), Some(<<"0">>), Some(<<"N", "/", "A">>)}
BoardOpts == {<< >>} \cup {<<BoardElem(t, a)>> : t \in TomatoOpts, a \in AudienceOpts}
TimeOpts == {<< >>} \cup {<<TimeElem(t)>> : t \in {TimeFull, <<"J", "u", "l", "y", " ", "1", "6",
        ",", " ", "2", "0", "1", "0">>}}

MovieDoc(title, info, genre, board, time) == title \o info \o genre \o board \o time
MovieDocs == {MovieDoc(t, i, g, b, d) :
                 t \in TitleOpts, i \in InfoOpts, g \in GenreOpts, b \in BoardOpts, d \in TimeOpts}

Slot(name, text) == Elem("rt-text", [slot |-> name], text)
Link(href, text) == Elem("rt-link", [href |-> href], text)

HeadingFull == <<"S", "e", "a", "s", "o", "n", " ", "1", " ">> \o SeasonDash \o <<" ", "L", "o",
        "s", "t">>
AirFull == <<"A", "i", "r", "e", "d", " ", "J", "a", "n", " ", "2", "0", ",", " ", "2", "0", "0",
        "8">>
LinksFull == <<Link(<<"/", "b", "r", "o", "w", "s", "e", "/", "t", "v", "/", "g", "e", "n", "r",
        "e", "s", ":", "d", "r", "a", "m", "a">>, <<"D", "r", "a", "m", "a">>),
               Link(<<"/", "t", "v">>, <<"H", "o", "m", "e">>),
               Link(<<"/", "b", "r", "o", "w", "s", "e", "/", "t", "v", "/", "g", "e", "n", "r",
                       "e", "s", ":", "m", "y", "s", "t", "e", "r", "y">>, <<"M", "y", "s", "t",
                       "e", "r", "y">>)>>

HeadingOpts == {<< >>} \cup {<<Elem("h1", NoAttrs, t)>> :
                   t \in {HeadingFull, <<"L", "o", "s", "t">>, <<"S", "e", "a", "s", "o", "n", " ",
                           "1", " ">> \o EnDash \o <<" ", "L", "o", "s", "t">>}}
LinkOpts == {<< >>, LinksFull, <<Elem("rt-link", NoAttrs, <<"D", "r", "a", "m", "a">>)>>}
CriticsOpts == {<< >>} \cup {<<Slot("criticsScore", t)>> : t \in {<<"9", "6", "%">>, <<"0", "%">>,
        << >>, <<"-", "-">>}}
AudSlotOpts == {<< >>} \cup {<<Slot("audienceScore", t)>> : t \in {<<"9", "7", "%">>, << >>, <<"N",
        "/", "A">>}}
AirOpts == {<< >>} \cup {<<Slot("airDate", t)>> : t \in {AirFull, << >>, <<"A", "i", "r", "e", "d",
        " ", "s", "o", "o", "n">>, Aired}}

TvDoc(heading, links, critics, audience, air) == heading \o links \o critics \o audience \o air
TvDocs == {TvDoc(h, l, c, a, d) :
              h \in HeadingOpts, l \in LinkOpts, c \in CriticsOpts, a \in AudSlotOpts,
                      d \in AirOpts}

TvUrl == <<"https:", "", "www.rottentomatoes.com", "tv", "lost", "s01">>
MovieUrl == <<"https:", "", "www.rottentomatoes.com", "m", "inception">>

SeriesFull == [ok |-> TRUE, doc |-> <<Slot("releaseDate", <<"2", "0", "0", "4">>)>>]
FetchFailed == [ok |-> FALSE, doc |-> << >>]
SeriesOpts == {FetchFailed, SeriesFull,
               [ok |-> TRUE, doc |-> << >>],
               [ok |-> TRUE, doc |-> <<Slot("releaseDate", << >>)>>]}

Pending == [exc |-> "pending", line |-> 0, val |-> << >>]

---------------------------------------------------------------------------
(* logging, as configured by logging.basicConfig(level=logging.ERROR) *)

ConfiguredLevel == "ERROR"

\* the numeric value of a logging level
LevelNo(level) == CASE level = "WARNING" -> 30 [] level = "ERROR" -> 40

\* logging.warning / logging.error: the root logger drops a record below
\* its level. call is the history of which scrape call made the record.
Emit(log, level, msg, u, call) ==
    IF LevelNo(level) >= LevelNo(ConfiguredLevel)
    THEN Append(log, [level |-> level, msg |-> msg, url |-> u, call |-> call])
    ELSE log

---------------------------------------------------------------------------
(* scrape_rotten_tomatoes_and_update_sheet *)

HeaderNames == <<"Title", "Movie or TV", "Year", "Genre", "Runtime", "Tomatometer",
                 "Audience Score", "Release Date">>

\* list.index(x), 0-based; -1 stands for ValueError
ListIndex(list, x) ==
    IF \E i \in 1..Len(list) : list[i] = x
    THEN (CHOOSE i \in 1..Len(list) : list[i] = x /\ \A j \in 1..(i - 1) : list[j] # x) - 1
    ELSE -1

\* A dict is the sequence of its <<key, value>> items in insertion order.
\* d[key] = value
DictSet(d, key, value) ==
    IF \E i \in 1..Len(d) : d[i][1] = key
    THEN [i \in 1..Len(d) |-> IF d[i][1] = key THEN <<key, value>> ELSE d[i]]
    ELSE Append(d, <<key, value>>)

\* list(d.values())
DictValues(d) == [i \in 1..Len(d) |-> d[i][2]]

RECURSIVE DictOfNone(_, _)
\* line 246: {header_row[i - 1]: None for i in column_indices}
DictOfNone(header, column_indices) ==
    IF column_indices = << >> THEN << >>
    ELSE DictSet(DictOfNone(header, SubSeq(column_indices, 1, Len(column_indices) - 1)),
                 header[column_indices[Len(column_indices)]], None)

\* lines 246-254: a value is None or Some(the field)
BuildData(header, column_indices, rec) ==
    LET d0 == DictOfNone(header, column_indices)
        d1 == DictSet(d0, "Title", Some(rec[1]))
        d2 == DictSet(d1, "Movie or TV", Some(rec[2]))
        d3 == DictSet(d2, "Year", Some(rec[3]))
        d4 == DictSet(d3, "Genre", Some(rec[4]))
        d5 == DictSet(d4, "Runtime", Some(rec[5]))
        d6 == DictSet(d5, "Tomatometer", Some(rec[6]))
        d7 == DictSet(d6, "Audience Score", Some(rec[7]))
    IN  DictSet(d7, "Release Date", Some(rec[8]))

\* line 256: f"B{row_number}:{chr(65 + len(header_row))}{row_number}"
\* (the headers of the model have fewer than 26 columns)
UpdateRange(row_number, header) ==
    [first |-> <<"B", row_number>>, last |-> <<UpperChars[Len(header) + 1], row_number>>]

Outcome(extractor, exc, line, write, logcall) ==
    [extractor |-> extractor, exc |-> exc, line |-> line, write |-> write, logcall |-> logcall]

\* lines 260-265: the three except clauses
Caught(extractor, exc, line) ==
    Outcome(extractor, exc, line, None,
            Some([level |-> "ERROR",
                  msg |-> IF exc = "RequestException" THEN "Error making request"
                          ELSE IF exc = "FeatureNotFound" THEN "Error parsing HTML"
                          ELSE "Unexpected error scraping"]))

\* lines 242-244: the else branch of the dispatch
Unrecognized ==
    Outcome("none", "", 0, None,
            Some([level |-> "WARNING", msg |-> "Show type not recognized"]))

\* Update with sheet.update moved to a finally clause: the row is written
\* whether or not the extractor returned
UpdateInFinally(extractor, r, row_number, header, column_indices, update_ok) ==
    Outcome(extractor, r.exc, r.line,
            Some([range |-> UpdateRange(row_number, header),
                  values |-> IF r.exc = ""
                             THEN DictValues(BuildData(header, column_indices, r.val))
                             ELSE DictValues(DictOfNone(header, column_indices))]),
            None)

\* lines 246-258 and the except clauses: r is what the extractor returned
\* or raised
Update(extractor, r, row_number, header, column_indices, update_ok) ==
    IF r.exc # "" THEN Caught(extractor, r.exc, r.line)
    ELSE IF ~update_ok THEN Caught(extractor, "APIError", 258)
    ELSE Outcome(extractor, "", 0,
                 Some([range |-> UpdateRange(row_number, header),
                       values |-> DictValues(BuildData(header, column_indices, r.val))]),
                 None)

\* What one call does: the extractor it invoked, the exception it caught,
\* the sheet.update it made and the logging call it made.
\* response: what requests.get(url) and BeautifulSoup do; series_response:
\* what the series fetch does; update_ok: whether sheet.update succeeds.
scrape_rotten_tomatoes_and_update_sheet(u, row_number, header, column_indices, response, series_response, update_ok) ==
    IF response.kind = "RequestException" THEN Caught("none", "RequestException", 234)
    ELSE IF response.kind = "FeatureNotFound" THEN Caught("none", "FeatureNotFound", 235)
    ELSE
    LET page == response.doc
        meta == Find(page, "meta", "property", "og:type")
    IN  IF meta = None THEN Caught("none", "TypeError", 237)        \* None['content']
        ELSE IF "content" \notin DOMAIN meta[1].attrs THEN Caught("none", "KeyError", 237)
        ELSE
        LET show_type == meta[1].attrs["content"]
            extractor == IF Contains(show_type, <<"m", "o", "v", "i", "e">>) THEN "movie"
                         ELSE IF Contains(show_type, <<"t", "v", "_", "s", "h", "o",
                                 "w">>) THEN "tv"
                         ELSE "none"
        IN  IF extractor = "none" THEN Unrecognized
            ELSE Update(extractor,
                        IF extractor = "movie"
                        THEN extract_movie_info(page)
                        ELSE extract_tv_info(page, u, series_response),
                        row_number, header, column_indices, update_ok)

---------------------------------------------------------------------------
(* fetch_urls_from_sheet and main *)

StartRow == 448

\* a cell of the URL column above start_row
OldCell == <<"old">>

\* sheet.col_values(column_number): the column from row 1 on; col holds
\* its cells from row start_row on
ColValues(col) ==
    [i \in 1..(StartRow - 1 + Len(col)) |-> IF i < StartRow THEN OldCell ELSE col[i - StartRow + 1]]

\* list[start:None]
SliceFrom(list, start) == SubSeq(list, start + 1, Len(list))

\* lines 203-206
fetch_urls_from_sheet(col, start_row) ==
    LET rows == SliceFrom(ColValues(col), start_row - 1)
    IN  SelectSeq(rows, LAMBDA cell : cell # << >>)

\* history: the sheet rows of the non-empty cells of col, in order
SourceRows(col) ==
    LET rows == [i \in 1..Len(col) |-> StartRow + i - 1]
    IN  SelectSeq(rows, LAMBDA r : col[r - StartRow + 1] # << >>)

\* lines 284-291
ColumnIndices(header) == [k \in 1..Len(HeaderNames) |-> ListIndex(header, HeaderNames[k]) + 1]

MetaElem(content) == Elem("meta", [property |-> "og:type", content |-> content], << >>)

MovieFull == MovieDoc(<<TitleElem>>, <<InfoElem(InfoFull)>>, <<GenreElem(GenreFull)>>,
                      <<BoardElem(Some(<<"8", "7">>), Some(<<"9", "1">>))>>, <<TimeElem(TimeFull)>>)
TvFull == TvDoc(<<Elem("h1", NoAttrs, HeadingFull)>>, LinksFull,
                <<Slot("criticsScore", <<"9", "6", "%">>)>>, <<Slot("audienceScore", <<"9", "7",
                        "%">>)>>,
                <<Slot("airDate", AirFull)>>)

Page(doc) == [kind |-> "page", doc |-> doc]

\* what a request of main's loop can be answered with
Responses ==
    {[kind |-> "RequestException", doc |-> << >>],
     [kind |-> "FeatureNotFound", doc |-> << >>],
     Page(<<Elem("meta", [property |-> "og:title", content |-> <<"m", "o", "v", "i", "e">>],
             << >>)>>),
     Page(<<Elem("meta", [property |-> "og:type"], << >>)>>),
     Page(<<MetaElem(<<"w", "e", "b", "s", "i", "t", "e">>)>>),
     Page(<<MetaElem(<<"v", "i", "d", "e", "o", ".", "m", "o", "v", "i", "e">>)>> \o MovieFull),
     Page(<<MetaElem(<<"v", "i", "d", "e", "o", ".", "m", "o", "v", "i", "e">>)>>
          \o MovieDoc(<<TitleElem>>, << >>, << >>, << >>, << >>)),
     Page(<<MetaElem(<<"v", "i", "d", "e", "o", ".", "t", "v", "_", "s", "h", "o",
             "w">>)>> \o TvFull),
     Page(<<MetaElem(<<"v", "i", "d", "e", "o", ".", "t", "v", "_", "s", "h", "o", "w">>)>>
          \o TvDoc(<< >>, << >>, << >>, << >>, <<Slot("airDate", <<"A", "i", "r", "e", "d", " ",
                  "s", "o", "o", "n">>)>>))}

SeriesResponses == {FetchFailed, SeriesFull}

HeaderRows ==
    {<<"#">> \o HeaderNames \o <<"URL">>,
     <<"#", "Year", "Title", "Movie or TV", "Genre", "Runtime", "Tomatometer",
       "Audience Score", "Release Date", "Notes", "URL">>,
     <<"#", "Name", "Movie or TV", "Year", "Genre", "Runtime", "Tomatometer",
       "Audience Score", "Release Date", "URL">>}

MaxCells == 2

Cells == {<< >>, TvUrl, MovieUrl}
Columns == UNION {[1..n -> Cells] : n \in 0..MaxCells}

Init ==
    /\ pc = "start"
    /\ column \in Columns
    /\ header_row \in HeaderRows
    /\ urls = << >>
    /\ srcRows = << >>
    /\ idx = 0
    /\ sheetWrites = << >>
    /\ logFile = << >>
    /\ calls = << >>
    /\ soup = << >>
    /\ url = << >>
    /\ series = FetchFailed
    /\ result = Pending

\* lines 275-291; sheet_ok: whether get_google_sheet returns the sheet
MainStart ==
    /\ pc = "start"
    /\ \E sheet_ok \in BOOLEAN :
         IF ~sheet_ok
         THEN /\ pc' = "aborted"
              /\ logFile' = Emit(logFile, "ERROR", "Error accessing Google Sheets API", << >>, 0)
              /\ UNCHANGED <<urls, srcRows>>
         ELSE /\ urls' = fetch_urls_from_sheet(column, StartRow)
              /\ srcRows' = SourceRows(column)
              /\ pc' = IF \E k \in 1..Len(HeaderNames) : ListIndex(header_row, HeaderNames[k]) < 0
                       THEN "aborted"     \* ValueError of header_row.index
                       ELSE "loop"
              /\ UNCHANGED logFile
    /\ UNCHANGED <<column, header_row, idx, sheetWrites, calls, soup, url, series, result>>

\* the effects of one call, o, on the sheet and the log, and its history
\* (response: what the request of the page was answered with)
Record(u, row_number, response, o) ==
    /\ sheetWrites' = IF o.write # None
                      THEN Append(sheetWrites, [call |-> idx + 1,
                                                range |-> o.write[1].range,
                                                values |-> o.write[1].values])
                      ELSE sheetWrites
    /\ logFile' = IF o.logcall # None
                  THEN Emit(logFile, o.logcall[1].level, o.logcall[1].msg, u, idx + 1)
                  ELSE logFile
    /\ calls' = Append(calls, [url |-> u, row |-> row_number, response |-> response,
                               extractor |-> o.extractor, exc |-> o.exc,
                               line |-> o.line, wrote |-> o.write # None,
                               logcall |-> o.logcall])

\* lines 293-295: one iteration of the loop of main
MainLoop ==
    /\ pc = "loop"
    /\ idx < Len(urls)
    /\ \E response \in Responses, series_response \in SeriesResponses, update_ok \in BOOLEAN :
         Record(urls[idx + 1], StartRow + idx, response,
                scrape_rotten_tomatoes_and_update_sheet(
                    urls[idx + 1], StartRow + idx, header_row, ColumnIndices(header_row),
                    response, series_response, update_ok))
    /\ idx' = idx + 1
    /\ UNCHANGED <<pc, column, header_row, urls, srcRows, soup, url, series, result>>

\* the loop of main is exhausted
MainDone ==
    /\ pc = "loop"
    /\ idx = Len(urls)
    /\ pc' = "done"
    /\ UNCHANGED <<column, header_row, urls, srcRows, idx, sheetWrites, logFile, calls,
                   soup, url, series, result>>

Next == MainStart \/ MainLoop \/ MainDone

Spec == Init /\ [][Next]_vars

\* main runs to its end: nothing in the code suspends it
FairSpec == Spec /\ WF_vars(Next)

---------------------------------------------------------------------------
(* The extractors on their own *)

ExtractInit ==
    /\ \/ /\ pc = "call_movie"
          /\ soup \in MovieDocs
          /\ url = MovieUrl
          /\ series = FetchFailed
       \/ /\ pc = "call_tv"
          /\ soup \in TvDocs
          /\ url \in {TvUrl, MovieUrl}
          /\ series \in SeriesOpts
    /\ column = << >>
    /\ header_row = << >>
    /\ urls = << >>
    /\ srcRows = << >>
    /\ idx = 0
    /\ sheetWrites = << >>
    /\ logFile = << >>
    /\ calls = << >>
    /\ result = Pending

ExtractMovie ==
    /\ pc = "call_movie"
    /\ result' = extract_movie_info(soup)
    /\ pc' = "returned_movie"
    /\ UNCHANGED <<column, header_row, urls, srcRows, idx, sheetWrites, logFile, calls,
                   soup, url, series>>

ExtractTv ==
    /\ pc = "call_tv"
    /\ result' = extract_tv_info(soup, url, series)
    /\ pc' = "returned_tv"
    /\ UNCHANGED <<column, header_row, urls, srcRows, idx, sheetWrites, logFile, calls,
                   soup, url, series>>

ExtractNext == ExtractMovie \/ ExtractTv

ExtractSpec == ExtractInit /\ [][ExtractNext]_vars

---------------------------------------------------------------------------
(* Properties *)

NumFields == Len(HeaderNames)

\* C1: for every URL processed the sheet is written at most once, only
\* after an extractor was dispatched and returned, with all 8 fields of
\* the record assigned and in the order of the call; a call that caught
\* an exception or did not recognise the type wrote nothing.
C1_NoPartialRecord ==
    /\ \A k \in 1..Len(calls) :
         /\ Cardinality({w \in 1..Len(sheetWrites) : sheetWrites[w].call = k}) <= 1
         /\ (calls[k].exc # "" \/ calls[k].extractor = "none")
                => \A w \in 1..Len(sheetWrites) : sheetWrites[w].call # k
    /\ \A w \in 1..Len(sheetWrites) :
         /\ sheetWrites[w].call \in 1..Len(calls)
         /\ calls[sheetWrites[w].call].extractor \in {"movie", "tv"}
         /\ calls[sheetWrites[w].call].exc = ""
         /\ Len(sheetWrites[w].values) = NumFields
         /\ \A f \in 1..NumFields : sheetWrites[w].values[f] # None
         /\ sheetWrites[w].values[2] \in {Some(MovieType), Some(TvType)}

\* C1 witness: one call wrote a record and another call failed
C1_Witness ==
    /\ pc = "done"
    /\ Len(calls) = 2
    /\ Len(sheetWrites) = 1
    /\ \E k \in 1..Len(calls) : calls[k].extractor # "none" /\ calls[k].exc # ""

\* C3: with the type marker absent, or holding neither "movie" nor
\* "tv_show", no extractor is invoked, nothing is written and the call
\* issues the "Show type not recognized" warning; "movie" selects the
\* movie extractor, otherwise "tv_show" the television extractor, which
\* gets the URL of the call.
C3_Dispatch ==
    \A k \in 1..Len(calls) :
        calls[k].response.kind = "page" =>
            LET meta == Find(calls[k].response.doc, "meta", "property", "og:type")
                marker == IF meta = None THEN None ELSE AttrGet(meta[1], "content")
            IN  /\ (marker = None \/ (/\ ~Contains(marker[1], <<"m", "o", "v", "i", "e">>)
                                      /\ ~Contains(marker[1], <<"t", "v", "_", "s", "h", "o",
                                              "w">>)))
                      => /\ calls[k].extractor = "none"
                         /\ ~calls[k].wrote
                         /\ calls[k].logcall =
                                Some([level |-> "WARNING", msg |-> "Show type not recognized"])
                /\ (marker # None /\ Contains(marker[1], <<"m", "o", "v", "i", "e">>))
                      => calls[k].extractor = "movie"
                /\ (marker # None /\ ~Contains(marker[1], <<"m", "o", "v", "i", "e">>)
                                  /\ Contains(marker[1], <<"t", "v", "_", "s", "h", "o", "w">>))
                      => calls[k].extractor = "tv" /\ calls[k].url = urls[k]

\* C4: the record scraped from the URL read from sheet row r is written to
\* row r, also when cells between start_row and r are empty.
C4_RowsPaired ==
    \A w \in 1..Len(sheetWrites) :
        /\ sheetWrites[w].range.first[2] = srcRows[sheetWrites[w].call]
        /\ sheetWrites[w].range.last[2] = srcRows[sheetWrites[w].call]

\* C5: a record that fails is skipped, not fatal: nothing is written for
\* it, its failure is in the log, and the calls are made for the URLs in
\* list order, all of them once main is done.
C5_FailureIsSkippedAndLogged ==
    /\ \A k \in 1..Len(calls) :
         /\ calls[k].url = urls[k]
         /\ ~calls[k].wrote =>
              /\ \A w \in 1..Len(sheetWrites) : sheetWrites[w].call # k
              /\ \E l \in 1..Len(logFile) : logFile[l].call = k
    /\ pc = "done" => Len(calls) = Len(urls)

\* The part of C5 about progress: main reaches the end of its loop (or
\* aborts before the loop, on the sheet or its header row).
MainTerminates == <>(pc \in {"done", "aborted"})

\* the record of the end-to-end movie scenario
MovieExpected ==
    <<<<"I", "n", "c", "e", "p", "t", "i", "o", "n">>, <<"M", "o", "v", "i", "e">>, <<"2", "0",
            "1", "0">>, <<"S", "c", "i", "-", "F", "i", ",", " ", "A", "c", "t", "i", "o", "n">>,
            <<"2", "h", " ", "2", "8", "m">>,
      <<"float", 87, 100>>, <<"float", 91, 100>>, <<"0", "7", "/", "1", "6", "/", "1", "0">>>>

\* the record of the complete television page TvFull with SeriesFull
TvExpected ==
    <<<<"L", "o", "s", "t", " ", "(", "S", "e", "a", "s", "o", "n", " ", "1", ")">>, <<"T", "V">>,
            <<"2", "0", "0", "8", " ", "(", "2", "0", "0", "4", ")">>, <<"D", "r", "a", "m", "a",
            ",", " ", "M", "y", "s", "t", "e", "r", "y">>, <<"N", "/", "A">>,
      <<"float", 96, 100>>, <<"float", 97, 100>>, <<"0", "1", "/", "2", "0", "/", "0", "8">>>>

WithoutTag(doc, tag) == SelectSeq(doc, LAMBDA e : e.tag # tag)
WithoutSlot(doc, slot) ==
    SelectSeq(doc, LAMBDA e : ~(e.tag = "rt-text" /\ e.attrs["slot"] = slot))

\* a complete movie page less one element, and the fields that element feeds
MovieCases ==
    {[doc |-> WithoutTag(MovieFull, "h1"), fed |-> {1}],
     [doc |-> WithoutTag(MovieFull, "p"), fed |-> {3, 5}],
     [doc |-> WithoutTag(MovieFull, "span"), fed |-> {4}],
     [doc |-> WithoutTag(MovieFull, "score-board-deprecated"), fed |-> {6, 7}],
     [doc |-> WithoutTag(MovieFull, "time"), fed |-> {8}]}

\* the same for television (free: a field the claim leaves open)
TvCases ==
    {[doc |-> WithoutTag(TvFull, "h1"), series |-> SeriesFull, fed |-> {1}, free |-> {}],
     [doc |-> WithoutTag(TvFull, "rt-link"), series |-> SeriesFull, fed |-> {4}, free |-> {}],
     [doc |-> WithoutSlot(TvFull, "criticsScore"), series |-> SeriesFull,
      fed |-> {6}, free |-> {}],
     [doc |-> WithoutSlot(TvFull, "audienceScore"), series |-> SeriesFull,
      fed |-> {7}, free |-> {}],
     [doc |-> WithoutSlot(TvFull, "airDate"), series |-> SeriesFull,
      fed |-> {8}, free |-> {3}],
     [doc |-> TvFull, series |-> [ok |-> TRUE, doc |-> << >>], fed |-> {3}, free |-> {}]}

\* C2: with one optional element missing the extractor still returns a
\* record, the field fed by the element is "not found" and every other
\* field is what it is with the element present.
C2_MissingElementIsFieldLocal ==
    /\ pc = "returned_movie" =>
         \A c \in MovieCases :
             soup = c.doc =>
                 /\ result.exc = ""
                 /\ \A f \in 1..NumFields :
                        result.val[f] = IF f \in c.fed THEN NotFound ELSE MovieExpected[f]
    /\ (pc = "returned_tv" /\ url = TvUrl) =>
         \A c \in TvCases :
             (soup = c.doc /\ series = c.series) =>
                 /\ result.exc = ""
                 /\ \A f \in (1..NumFields) \ c.free :
                        result.val[f] = IF f \in c.fed THEN NotFound ELSE TvExpected[f]

\* C6: the television title is "not found" when the heading does not match
\* "Season <N> <dash> <title>" (or is missing), and "<title> (Season <N>)"
\* when it does.
C6_TitleAllOrNothing ==
    (pc = "returned_tv" /\ result.exc = "") =>
        LET h == FindTag(soup, "h1")
            m == SeasonSearch(IF h = None THEN << >> ELSE h[1].text)
        IN  result.val[1] = IF m = None
                            THEN NotFound
                            ELSE Strip(m[1].title) \o <<" ", "(", "S", "e", "a", "s", "o", "n",
                                    " ">> \o m[1].season \o <<")">>

\* C7: with every field present and an air date that does not parse, the
\* television extractor returns a record with release date "not found"
\* and the year it had before air-date parsing (the series year or the
\* sentinel).
C7_BadAirDateKeepsRecord ==
    (pc = "returned_tv" /\ url = TvUrl /\ series = SeriesFull) =>
        \A t \in {<<"A", "i", "r", "e", "d", " ", "s", "o", "o", "n">>, Aired} :
            soup = WithoutSlot(TvFull, "airDate") \o <<Slot("airDate", t)>> =>
                /\ result.exc = ""
                /\ result.val[8] = NotFound
                /\ result.val[3] \in {NotFound, <<"2", "0", "0", "4">>}

\* a string of digits with a value in 0..100
ValidPercent(s) == s # << >> /\ AllDigits(s) /\ DecVal(s) \in 0..100

ScoreAttrs == <<"tomatometerscore", "audiencescore">>
ScoreSlots == <<"criticsScore", "audienceScore">>

\* the text before the trailing "%" when s is "<p>%" with p in 0..100
PercentText(s) ==
    IF s # << >> /\ s[Len(s)] = "%" /\ ValidPercent(SubSeq(s, 1, Len(s) - 1))
    THEN Some(SubSeq(s, 1, Len(s) - 1))
    ELSE None

\* C8: a score source holding a percentage p in 0..100 gives the field
\* p/100 (0 gives 0); a score element whose attribute is absent, or whose
\* attribute or text is empty, gives "not found", and the record is
\* returned.  (Checked on pages whose other elements are as the extractor
\* needs them: the info paragraph, the series URL, the air date.)
C8_PercentageNormalization ==
    /\ pc = "returned_movie" =>
         LET board == FindTag(soup, "score-board-deprecated")
             Src(k) == AttrGet(board[1], ScoreAttrs[k])
         IN  (/\ board # None
              /\ Find(soup, "p", "class", "info") # None
              /\ \A k \in 1..2 : Src(k) = None \/ Src(k)[1] = << >> \/ ValidPercent(Src(k)[1]))
             => /\ result.exc = ""
                /\ \A k \in 1..2 :
                     result.val[5 + k] = IF Src(k) = None \/ Src(k)[1] = << >>
                                         THEN NotFound
                                         ELSE <<"float", DecVal(Src(k)[1]), 100>>
    /\ (pc = "returned_tv" /\ url = TvUrl /\ series.ok) =>
         LET Src(k) == Find(soup, "rt-text", "slot", ScoreSlots[k])
             Text(k) == Strip(Src(k)[1].text)
         IN  (/\ Find(soup, "rt-text", "slot", "airDate") = Some(Slot("airDate", AirFull))
              /\ \A k \in 1..2 : Src(k) # None /\ (Text(k) = << >> \/ PercentText(Text(k)) # None))
             => /\ result.exc = ""
                /\ \A k \in 1..2 :
                     result.val[5 + k] = IF Text(k) = << >>
                                         THEN NotFound
                                         ELSE <<"float", DecVal(PercentText(Text(k))[1]), 100>>

\* C9: a score attribute or text that is non-empty and not a number makes
\* that score "not found"; the record is still returned.  (Checked on
\* pages whose other elements are as the extractor needs them.)
C9_UnparseableScoreIsSentinel ==
    /\ pc = "returned_movie" =>
         LET board == FindTag(soup, "score-board-deprecated")
             Src(k) == AttrGet(board[1], ScoreAttrs[k])
         IN  (board # None /\ Find(soup, "p", "class", "info") # None) =>
                 \A k \in 1..2 :
                     (Src(k) # None /\ Src(k)[1] # << >> /\ FloatParse(Src(k)[1]) = None)
                         => result.exc = "" /\ result.val[5 + k] = NotFound
    /\ (pc = "returned_tv" /\ url = TvUrl /\ series.ok) =>
         LET Src(k) == Find(soup, "rt-text", "slot", ScoreSlots[k])
             Text(k) == Strip(Src(k)[1].text)
         IN  Find(soup, "rt-text", "slot", "airDate") = Some(Slot("airDate", AirFull)) =>
                 \A k \in 1..2 :
                     (/\ Src(k) # None
                      /\ Text(k) # << >>
                      /\ FloatParse(StripSet(Text(k), {"%"})) = None)
                         => result.exc = "" /\ result.val[5 + k] = NotFound

\* C10: year is the trimmed first comma-separated token of the info text
\* and "not found" when the text is empty; runtime is the trimmed third
\* token and "not found" when there are fewer than 3.
C10_InfoTokens ==
    (pc = "returned_movie" /\ result.exc = "") =>
        LET info_text == Strip(Find(soup, "p", "class", "info")[1].text)
            tokens == Split(info_text, ",")
        IN  /\ result.val[3] = IF info_text = << >> THEN NotFound ELSE Strip(tokens[1])
            /\ result.val[5] = IF Len(tokens) >= 3 THEN Strip(tokens[3]) ELSE NotFound

====
